---- MODULE Spec2Model ----
(***************************************************************************)
(* The generic list store of GetHooks (list.c): a singly linked list of    *)
(* (id, name) items kept in a typed store, with per-type duplicate         *)
(* detection on insertion.  Memory is modelled as three typed heaps: the   *)
(* store object, the item cells and the name buffers.                      *)
(***************************************************************************)
EXTENDS Integers, Sequences, FiniteSets, TLC

VARIABLES exited, handle, store, item, buf, last, pre

vars == <<exited, handle, store, item, buf, last, pre>>

(***************************************************************************)
(* Bounds of the model.                                                    *)
(***************************************************************************)
MaxItems == 3
MaxId == 1

(* The strings callers pass as names: "A", "AB", "ab".                     *)
Names == {<<65>>, <<65, 66>>, <<97, 98>>}

Ids == 0..MaxId

(***************************************************************************)
(* Pointers and list types.                                                *)
(***************************************************************************)
NULL == 0
HandleRef == 1
StoreAddr == 1

LIST_INVALID_TYPE == 0
LIST_INCLUDE_DESK == 1
LIST_INCLUDE_HOOK == 2
LIST_INCLUDE_PROG == 3
LIST_EXCLUDE_HOOK == 4
LIST_EXCLUDE_PROG == 5
LIST_UNKNOWN_TYPE == 6

ListTypes == LIST_INCLUDE_DESK..LIST_UNKNOWN_TYPE

(* One item cell more than a store may hold, so that a call on a full     *)
(* store can still be made when it finds an existing item.                 *)
ItemAddrs == 1..(MaxItems + 1)
HeapBufs == 1..(MaxItems + 1)
CallerBuf == MaxItems + 2
BufAddrs == HeapBufs \cup {CallerBuf}

ZeroStore == [type |-> LIST_INVALID_TYPE, head |-> NULL, tail |-> NULL]
FreeItem == [live |-> FALSE, id |-> 0, name |-> NULL, next |-> NULL]
FreeBuf == [live |-> FALSE, str |-> <<>>]

Mem == [store |-> store, item |-> item, buf |-> buf]

(***************************************************************************)
(* Library and collaborator functions.                                     *)
(***************************************************************************)
towlower(c) == IF c \in 65..90 THEN c + 32 ELSE c

RECURSIVE wcsicmp(_, _)
wcsicmp(s, t) ==
    LET c1 == IF s = <<>> THEN 0 ELSE towlower(Head(s))
        c2 == IF t = <<>> THEN 0 ELSE towlower(Head(t))
    IN  IF c1 # c2 THEN c1 - c2
        ELSE IF c1 = 0 THEN 0
        ELSE wcsicmp(Tail(s), Tail(t))

(* The hook directory: hook id 1 is named "AB"; no other id has a name.    *)
hook_names == (1 :> <<65, 66>>)

get_hook_id_from_name(id, str) ==
    LET hits == {i \in DOMAIN hook_names : wcsicmp(hook_names[i], str) = 0}
    IN  IF hits = {} THEN [ok |-> FALSE, id |-> id]
        ELSE [ok |-> TRUE, id |-> CHOOSE i \in hits : TRUE]

lowest_free(cells, addrs) ==
    CHOOSE a \in addrs : ~cells[a].live /\ \A b \in addrs : b < a => cells[b].live

(* must_wcsdup: a fresh buffer holding a copy of the string.               *)
must_wcsdup(bf, str) ==
    LET p == lowest_free(bf, HeapBufs)
    IN  [p |-> p, buf |-> [bf EXCEPT ![p] = [live |-> TRUE, str |-> str]]]

get_hook_name_from_id(bf, id) ==
    IF id \in DOMAIN hook_names
    THEN LET d == must_wcsdup(bf, hook_names[id])
         IN  [ok |-> TRUE, hookname |-> d.p, buf |-> d.buf]
    ELSE [ok |-> FALSE, hookname |-> NULL, buf |-> bf]

free(bf, p) == IF p = NULL THEN bf ELSE [bf EXCEPT ![p] = FreeBuf]

FAIL_IF(expr) == expr

(***************************************************************************)
(* add_list_item().  An operation on memory m = [store, item, buf] yields  *)
(* [exit, ret, m, lookups]: whether the process terminated, the returned   *)
(* pointer, the memory afterwards and the number of calls made to          *)
(* get_hook_name_from_id.                                                  *)
(***************************************************************************)
Ret(m, p) == [exit |-> FALSE, ret |-> p, m |-> m, lookups |-> 0]
Die(m) == [exit |-> TRUE, ret |-> NULL, m |-> m, lookups |-> 0]

IsHook(type) == (type = LIST_INCLUDE_HOOK) \/ (type = LIST_EXCLUDE_HOOK)
IsProg(type) == (type = LIST_INCLUDE_PROG) \/ (type = LIST_EXCLUDE_PROG)

(* Faulty variant: the program rule (nameless items only) used for hooks.   *)
hook_id_match_nameless(m, cur, id) ==
    m.item[cur].name = NULL /\ id = m.item[cur].id

hook_id_match(m, cur, id) == id = m.item[cur].id

(* Faulty variant: a case-sensitive comparison.                             *)
prog_name_match_exact(m, cur, str) ==
    m.item[cur].name # NULL /\ m.buf[m.item[cur].name].str = str

prog_name_match(m, cur, str) ==
    m.item[cur].name # NULL /\ wcsicmp(m.buf[m.item[cur].name].str, str) = 0

(* Faulty variant: the id of a named item is compared too.                 *)
prog_id_match_any(m, cur, id) == id = m.item[cur].id

prog_id_match(m, cur, id) == m.item[cur].name = NULL /\ id = m.item[cur].id

(* Faulty variant: a case-sensitive comparison.                             *)
desk_name_match_exact(m, cur, str) ==
    m.item[cur].name # NULL /\ m.buf[m.item[cur].name].str = str

desk_name_match(m, cur, str) ==
    m.item[cur].name # NULL /\ wcsicmp(m.buf[m.item[cur].name].str, str) = 0

(* The four search loops "for( item = store->head; item; item = item->next )". *)
(* fuel bounds the walk by the number of item cells.                       *)
RECURSIVE scan_hook_id(_, _, _, _)
scan_hook_id(m, cur, id, fuel) ==
    IF cur = NULL \/ fuel = 0 THEN NULL
    ELSE IF hook_id_match(m, cur, id) THEN cur
    ELSE scan_hook_id(m, m.item[cur].next, id, fuel - 1)

RECURSIVE scan_prog_name(_, _, _, _)
scan_prog_name(m, cur, str, fuel) ==
    IF cur = NULL \/ fuel = 0 THEN NULL
    ELSE IF prog_name_match(m, cur, str) THEN cur
    ELSE scan_prog_name(m, m.item[cur].next, str, fuel - 1)

RECURSIVE scan_prog_id(_, _, _, _)
scan_prog_id(m, cur, id, fuel) ==
    IF cur = NULL \/ fuel = 0 THEN NULL
    ELSE IF prog_id_match(m, cur, id) THEN cur
    ELSE scan_prog_id(m, m.item[cur].next, id, fuel - 1)

RECURSIVE scan_desk_name(_, _, _, _)
scan_desk_name(m, cur, str, fuel) ==
    IF cur = NULL \/ fuel = 0 THEN NULL
    ELSE IF desk_name_match(m, cur, str) THEN cur
    ELSE scan_desk_name(m, m.item[cur].next, str, fuel - 1)

(* Faulty variant: the tail is not moved to the new item.                  *)
link_item_stale_tail(m, a) ==
    IF m.store.head = NULL
    THEN [m EXCEPT !.store.head = a, !.store.tail = a]
    ELSE [m EXCEPT !.item[m.store.tail].next = a]

(* Faulty variant: the new item is linked in front of the head.            *)
link_item_at_head(m, a) ==
    IF m.store.head = NULL
    THEN [m EXCEPT !.store.head = a, !.store.tail = a]
    ELSE [m EXCEPT !.item[a].next = m.store.head, !.store.head = a]

(* Lines 248-257: link the new item a behind the tail.                     *)
link_item(m, a) ==
    IF m.store.head = NULL
    THEN [m EXCEPT !.store.head = a, !.store.tail = a]
    ELSE [m EXCEPT !.item[m.store.tail].next = a, !.store.tail = a]

(* Faulty variant: the id is not stored; the field stays zero.             *)
new_item_no_id(m, id, name, hookname) ==
    LET a == lowest_free(m.item, ItemAddrs)
        nm == IF hookname # NULL THEN [p |-> hookname, buf |-> m.buf]
              ELSE IF name # NULL THEN must_wcsdup(m.buf, m.buf[name].str)
              ELSE [p |-> NULL, buf |-> m.buf]
        m1 == [m EXCEPT !.buf = nm.buf,
                        !.item[a] = [live |-> TRUE, id |-> 0,
                                     name |-> nm.p, next |-> NULL]]
    IN  Ret(link_item(m1, a), a)

(* Faulty variant: the caller's pointer is stored, not a copy of the name. *)
new_item_alias(m, id, name, hookname) ==
    LET a == lowest_free(m.item, ItemAddrs)
        p == IF hookname # NULL THEN hookname ELSE name
        m1 == [m EXCEPT !.item[a] = [live |-> TRUE, id |-> id,
                                     name |-> p, next |-> NULL]]
    IN  Ret(link_item(m1, a), a)

(* Faulty variant: the name resolved for a hook id is not stored.          *)
new_item_drop_hookname(m, id, name, hookname) ==
    LET a == lowest_free(m.item, ItemAddrs)
        nm == IF name # NULL THEN must_wcsdup(m.buf, m.buf[name].str)
              ELSE [p |-> NULL, buf |-> m.buf]
        m1 == [m EXCEPT !.buf = nm.buf,
                        !.item[a] = [live |-> TRUE, id |-> id,
                                     name |-> nm.p, next |-> NULL]]
    IN  Ret(link_item(m1, a), a)

(* Label new_item: create a new item and add it to the list.               *)
new_item(m, id, name, hookname) ==
    LET a == lowest_free(m.item, ItemAddrs)
        nm == IF hookname # NULL THEN [p |-> hookname, buf |-> m.buf]
              ELSE IF name # NULL THEN must_wcsdup(m.buf, m.buf[name].str)
              ELSE [p |-> NULL, buf |-> m.buf]
        m1 == [m EXCEPT !.buf = nm.buf,
                        !.item[a] = [live |-> TRUE, id |-> id,
                                     name |-> nm.p, next |-> NULL]]
    IN  Ret(link_item(m1, a), a)

(* Faulty variant: the existing item takes the newly resolved name.        *)
existing_item_replace_name(m, it, hookname) ==
    IF it # NULL /\ hookname # NULL
    THEN Ret([m EXCEPT !.buf = free(m.buf, m.item[it].name),
                       !.item[it].name = hookname], it)
    ELSE Ret([m EXCEPT !.buf = free(m.buf, hookname)], it)

(* Faulty variant: the resolved name is not freed.                         *)
existing_item_leak(m, it, hookname) == Ret(m, it)

(* Label existing_item: free resources and return the existing item, if any. *)
existing_item(m, it, hookname) ==
    Ret([m EXCEPT !.buf = free(m.buf, hookname)], it)

hook_lookup(m, id, name, hookname) ==
    LET it == scan_hook_id(m, m.store.head, id, MaxItems + 1)
    IN  IF it # NULL THEN existing_item(m, it, hookname)
        ELSE new_item(m, id, name, hookname)

(* Faulty variant: a name that does not resolve is inserted under the id   *)
(* that was passed in.                                                     *)
add_hook_ignore_failure(m, id, name) ==
    IF name # NULL
    THEN LET r == get_hook_id_from_name(id, m.buf[name].str)
         IN  hook_lookup(m, r.id, name, NULL)
    ELSE LET r == get_hook_name_from_id(m.buf, id)
         IN  hook_lookup([m EXCEPT !.buf = r.buf], id, name, r.hookname)

(* Faulty variant: the id passed in is used, not the id of the name.       *)
add_hook_keep_id(m, id, name) ==
    IF name # NULL
    THEN LET r == get_hook_id_from_name(id, m.buf[name].str)
         IN  IF ~r.ok THEN existing_item(m, NULL, NULL)
             ELSE hook_lookup(m, id, name, NULL)
    ELSE LET r == get_hook_name_from_id(m.buf, id)
         IN  [hook_lookup([m EXCEPT !.buf = r.buf], id, name, r.hookname)
                 EXCEPT !.lookups = 1]

(* Faulty variant: an id without a name is refused like an unknown name.   *)
add_hook_name_required(m, id, name) ==
    IF name # NULL
    THEN LET r == get_hook_id_from_name(id, m.buf[name].str)
         IN  IF ~r.ok THEN existing_item(m, NULL, NULL)
             ELSE hook_lookup(m, r.id, name, NULL)
    ELSE LET r == get_hook_name_from_id(m.buf, id)
         IN  IF ~r.ok THEN existing_item(m, NULL, NULL)
             ELSE hook_lookup([m EXCEPT !.buf = r.buf], id, name, r.hookname)

add_hook(m, id, name) ==
    IF name # NULL
    THEN LET r == get_hook_id_from_name(id, m.buf[name].str)
         IN  IF ~r.ok THEN existing_item(m, NULL, NULL)
             ELSE hook_lookup(m, r.id, name, NULL)
    ELSE LET r == get_hook_name_from_id(m.buf, id)
         IN  [hook_lookup([m EXCEPT !.buf = r.buf], id, name, r.hookname)
                 EXCEPT !.lookups = 1]

(* Faulty variant: the list is not searched; every call makes a new item. *)
add_prog_no_scan(m, id, name) ==
    new_item(m, id, name, NULL)

add_prog(m, id, name) ==
    LET it == IF name # NULL
              THEN scan_prog_name(m, m.store.head, m.buf[name].str, MaxItems + 1)
              ELSE scan_prog_id(m, m.store.head, id, MaxItems + 1)
    IN  IF it # NULL THEN existing_item(m, it, NULL)
        ELSE new_item(m, id, name, NULL)

(* Faulty variant: the id passed for a desktop is ignored, not refused.    *)
add_desk_ignore_id(m, id, name) ==
    IF FAIL_IF(name = NULL) THEN Die(m)
    ELSE LET it == scan_desk_name(m, m.store.head, m.buf[name].str, MaxItems + 1)
         IN  IF it # NULL THEN existing_item(m, it, NULL)
             ELSE new_item(m, id, name, NULL)

add_desk(m, id, name) ==
    IF FAIL_IF(name = NULL) THEN Die(m)
    ELSE IF FAIL_IF(id # 0) THEN Die(m)
    ELSE LET it == scan_desk_name(m, m.store.head, m.buf[name].str, MaxItems + 1)
         IN  IF it # NULL THEN existing_item(m, it, NULL)
             ELSE new_item(m, id, name, NULL)

(* Faulty variant: the desktop test assigns the type, "=" for "==".        *)
add_list_item_assign_type(m, st, id, name) ==
    IF FAIL_IF(st = NULL) THEN Die(m)
    ELSE IF FAIL_IF(m.store.type = 0) THEN Die(m)
    ELSE IF IsHook(m.store.type) THEN add_hook(m, id, name)
    ELSE IF IsProg(m.store.type) THEN add_prog(m, id, name)
    ELSE add_desk([m EXCEPT !.store.type = LIST_INCLUDE_DESK], id, name)

(* Faulty variant: an unknown type is handled as a generic list.           *)
add_list_item_generic(m, st, id, name) ==
    IF FAIL_IF(st = NULL) THEN Die(m)
    ELSE IF FAIL_IF(m.store.type = 0) THEN Die(m)
    ELSE IF IsHook(m.store.type) THEN add_hook(m, id, name)
    ELSE IF IsProg(m.store.type) THEN add_prog(m, id, name)
    ELSE IF m.store.type = LIST_INCLUDE_DESK THEN add_desk(m, id, name)
    ELSE new_item(m, id, name, NULL)

add_list_item(m, st, id, name) ==
    IF FAIL_IF(st = NULL) THEN Die(m)
    ELSE IF FAIL_IF(m.store.type = 0) THEN Die(m)
    ELSE IF IsHook(m.store.type) THEN add_hook(m, id, name)
    ELSE IF IsProg(m.store.type) THEN add_prog(m, id, name)
    ELSE IF m.store.type = LIST_INCLUDE_DESK THEN add_desk(m, id, name)
    ELSE Die(m)

(***************************************************************************)
(* create_list_store() and free_list_store().                              *)
(***************************************************************************)
(* Faulty variant: a handle that already points to a store is overwritten. *)
create_list_store_again(m, out, h) ==
    IF FAIL_IF(out = NULL) THEN [exit |-> TRUE, handle |-> h, m |-> m]
    ELSE [exit |-> FALSE, handle |-> StoreAddr, m |-> [m EXCEPT !.store = ZeroStore]]

create_list_store(m, out, h) ==
    IF FAIL_IF(out = NULL) THEN [exit |-> TRUE, handle |-> h, m |-> m]
    ELSE IF FAIL_IF(h # NULL) THEN [exit |-> TRUE, handle |-> h, m |-> m]
    ELSE [exit |-> FALSE, handle |-> StoreAddr, m |-> [m EXCEPT !.store = ZeroStore]]

(* The walk of free_list_store is a state s = [m, log, fault]: the memory, *)
(* the free() calls made so far in order, and whether a released cell was  *)
(* read or released again.                                                 *)
free_name(s, p) ==
    [m |-> [s.m EXCEPT !.buf = free(s.m.buf, p)],
     log |-> Append(s.log, [kind |-> "name", at |-> p]),
     fault |-> s.fault \/ ~s.m.buf[p].live]

free_item(s, a) ==
    [m |-> [s.m EXCEPT !.item[a] = FreeItem],
     log |-> Append(s.log, [kind |-> "item", at |-> a]),
     fault |-> s.fault \/ ~s.m.item[a].live]

(* Faulty variant: current->next is read after current has been freed; the *)
(* freed cell reads as zeroes here.                                        *)
RECURSIVE free_items_next_after_free(_, _, _)
free_items_next_after_free(s, current, fuel) ==
    IF current = NULL \/ fuel = 0 THEN s
    ELSE LET s0 == [s EXCEPT !.fault = s.fault \/ ~s.m.item[current].live]
             s1 == IF s0.m.item[current].name # NULL
                   THEN free_name(s0, s0.m.item[current].name)
                   ELSE s0
             s2 == free_item(s1, current)
             s3 == [s2 EXCEPT !.fault = TRUE]
             p == s3.m.item[current].next
         IN  free_items_next_after_free(s3, p, fuel - 1)

RECURSIVE free_items(_, _, _)
free_items(s, current, fuel) ==
    IF current = NULL \/ fuel = 0 THEN s
    ELSE LET s0 == [s EXCEPT !.fault = s.fault \/ ~s.m.item[current].live]
             p == s0.m.item[current].next
             s1 == IF s0.m.item[current].name # NULL
                   THEN free_name(s0, s0.m.item[current].name)
                   ELSE s0
             s2 == free_item(s1, current)
         IN  free_items(s2, p, fuel - 1)

(* Faulty variant: only in is tested, not the store it points to.          *)
free_list_store_no_store_check(m, in, h) ==
    IF in = NULL
    THEN [handle |-> h, m |-> m, log |-> <<>>, fault |-> FALSE]
    ELSE LET s0 == [m |-> m, log |-> <<>>, fault |-> h = NULL]
             s1 == IF m.store.head # NULL
                   THEN free_items(s0, m.store.head, MaxItems + 1)
                   ELSE s0
         IN  [handle |-> NULL,
              m |-> [s1.m EXCEPT !.store = ZeroStore],
              log |-> Append(s1.log, [kind |-> "store", at |-> h]),
              fault |-> s1.fault]

free_list_store(m, in, h) ==
    IF in = NULL \/ h = NULL
    THEN [handle |-> h, m |-> m, log |-> <<>>, fault |-> FALSE]
    ELSE LET s0 == [m |-> m, log |-> <<>>, fault |-> FALSE]
             s1 == IF m.store.head # NULL
                   THEN free_items(s0, m.store.head, MaxItems + 1)
                   ELSE s0
         IN  [handle |-> NULL,
              m |-> [s1.m EXCEPT !.store = ZeroStore],
              log |-> Append(s1.log, [kind |-> "store", at |-> h]),
              fault |-> s1.fault]

(***************************************************************************)
(* print_list_item() and print_list_store(): [m, out], the memory          *)
(* afterwards and the lines printed.                                       *)
(***************************************************************************)
print_list_item(m, it) ==
    IF it = NULL THEN [m |-> m, out |-> <<>>]
    ELSE [m |-> m,
          out |-> <<IF m.item[it].name # NULL
                    THEN [line |-> "item->name", str |-> m.buf[m.item[it].name].str]
                    ELSE [line |-> "item->id", id |-> m.item[it].id]>>]

type_label(type) ==
    CASE type = LIST_INVALID_TYPE -> "LIST_INVALID_TYPE"
      [] type = LIST_INCLUDE_DESK -> "LIST_INCLUDE_DESK"
      [] type = LIST_INCLUDE_HOOK -> "LIST_INCLUDE_HOOK"
      [] type = LIST_INCLUDE_PROG -> "LIST_INCLUDE_PROG"
      [] type = LIST_EXCLUDE_HOOK -> "LIST_EXCLUDE_HOOK"
      [] type = LIST_EXCLUDE_PROG -> "LIST_EXCLUDE_PROG"
      [] OTHER -> "unknown type"

(* The renderer of one item of a store.                                    *)
print_store_item(m, it) == print_list_item(m, it).out

RECURSIVE print_items(_, _, _)
print_items(m, cur, fuel) ==
    IF cur = NULL \/ fuel = 0 THEN <<>>
    ELSE <<[line |-> "item", ptr |-> cur]>> \o print_store_item(m, cur)
         \o print_items(m, m.item[cur].next, fuel - 1)

print_list_store(m, st) ==
    IF st = NULL THEN [m |-> m, out |-> <<>>]
    ELSE [m |-> m,
          out |-> <<[line |-> "store->type", str |-> type_label(m.store.type)],
                    [line |-> "store->head", ptr |-> m.store.head]>>
                  \o print_items(m, m.store.head, MaxItems + 1)
                  \o <<[line |-> "store->tail", ptr |-> m.store.tail]>>]

(***************************************************************************)
(* The state machine.  last records the latest call and its result; pre is *)
(* the memory as it was when that call was entered.                        *)
(***************************************************************************)
(* ptr is the pointer argument (store, out or in) and h the caller's      *)
(* handle when the call was entered.  again tells that the call repeats    *)
(* the call before it; prevret is then what that call returned (for        *)
(* free_list_store: the handle it was entered with) and prevnew whether it *)
(* created the item it returned.  log and fault are the walk of            *)
(* free_list_store, lookups the calls made to get_hook_name_from_id, out   *)
(* the lines a print call printed.                                         *)
NoCall == [op |-> "none", id |-> 0, name |-> NULL, ret |-> NULL,
           again |-> FALSE, prevret |-> NULL, afterfail |-> FALSE,
           ptr |-> NULL, h |-> NULL, log |-> <<>>, fault |-> FALSE,
           lookups |-> 0, prevnew |-> FALSE, out |-> <<>>]

Init ==
    /\ exited = FALSE
    /\ handle = NULL
    /\ store = ZeroStore
    /\ item = [a \in ItemAddrs |-> FreeItem]
    /\ buf = [b \in BufAddrs |-> FreeBuf]
    /\ last = NoCall
    /\ pre = [store |-> ZeroStore,
              item |-> [a \in ItemAddrs |-> FreeItem],
              buf |-> [b \in BufAddrs |-> FreeBuf]]

NumItems == Cardinality({a \in ItemAddrs : item[a].live})

(* The memory a call that takes no name is entered with: the caller holds  *)
(* no name buffer.                                                         *)
NoNameMem == [Mem EXCEPT !.buf[CallerBuf] = FreeBuf]

CreateListStore(out) ==
    /\ ~exited
    /\ LET r == create_list_store(NoNameMem, out, handle)
       IN  /\ exited' = r.exit
           /\ handle' = r.handle
           /\ store' = r.m.store
           /\ item' = r.m.item
           /\ buf' = r.m.buf
           /\ pre' = NoNameMem
           /\ last' = [NoCall EXCEPT !.op = "create", !.ptr = out, !.h = handle]

(* The caller sets the type of a store it has just created.                *)
SetType(type) ==
    /\ ~exited
    /\ handle # NULL
    /\ store.type = LIST_INVALID_TYPE
    /\ store.head = NULL
    /\ store' = [store EXCEPT !.type = type]
    /\ buf' = NoNameMem.buf
    /\ pre' = NoNameMem
    /\ last' = [NoCall EXCEPT !.op = "settype", !.ptr = handle, !.h = handle]
    /\ UNCHANGED <<exited, handle, item>>

(* The caller puts the string s into its own buffer and passes a pointer   *)
(* to it as name, or passes no name.                                       *)
AddListItem(id, name, s) ==
    /\ ~exited
    /\ LET m0 == [store |-> store, item |-> item,
                  buf |-> [buf EXCEPT ![CallerBuf] =
                                 [live |-> name # NULL, str |-> s]]]
           r == add_list_item(m0, handle, id, name)
           again == /\ last.op = "add"
                    /\ last.id = id
                    /\ last.name = name
                    /\ buf[CallerBuf].str = s
       IN  /\ Cardinality({a \in ItemAddrs : r.m.item[a].live}) <= MaxItems
           /\ exited' = r.exit
           /\ store' = r.m.store
           /\ item' = r.m.item
           /\ buf' = r.m.buf
           /\ pre' = m0
           /\ last' = [op |-> "add", id |-> id, name |-> name, ret |-> r.ret,
                       again |-> again,
                       prevret |-> IF again THEN last.ret ELSE NULL,
                       afterfail |-> last.op = "add" /\ last.ret = NULL,
                       ptr |-> handle, h |-> handle,
                       log |-> <<>>, fault |-> FALSE,
                       lookups |-> r.lookups,
                       prevnew |-> /\ again
                                   /\ last.ret # NULL
                                   /\ ~pre.item[last.ret].live,
                       out |-> <<>>]
    /\ UNCHANGED handle

FreeListStore(in) ==
    /\ ~exited
    /\ LET r == free_list_store(NoNameMem, in, handle)
       IN  /\ handle' = r.handle
           /\ store' = r.m.store
           /\ item' = r.m.item
           /\ buf' = r.m.buf
           /\ pre' = NoNameMem
           /\ last' = [NoCall EXCEPT !.op = "free", !.ptr = in, !.h = handle,
                                     !.log = r.log, !.fault = r.fault,
                                     !.again = (last.op = "free" /\ last.ptr = in),
                                     !.prevret = IF last.op = "free" /\ last.ptr = in
                                                 THEN last.h ELSE NULL]
    /\ UNCHANGED exited

(* The caller prints an item it holds a pointer to, or no item.            *)
PrintListItem(it) ==
    /\ ~exited
    /\ IF it = NULL THEN TRUE ELSE item[it].live
    /\ LET r == print_list_item(NoNameMem, it)
       IN  /\ store' = r.m.store
           /\ item' = r.m.item
           /\ buf' = r.m.buf
           /\ pre' = NoNameMem
           /\ last' = [NoCall EXCEPT !.op = "print_item", !.ptr = it,
                                     !.h = handle, !.out = r.out]
    /\ UNCHANGED <<exited, handle>>

PrintListStore(st) ==
    /\ ~exited
    /\ LET r == print_list_store(NoNameMem, st)
       IN  /\ store' = r.m.store
           /\ item' = r.m.item
           /\ buf' = r.m.buf
           /\ pre' = NoNameMem
           /\ last' = [NoCall EXCEPT !.op = "print_store", !.ptr = st,
                                     !.h = handle, !.out = r.out]
    /\ UNCHANGED <<exited, handle>>

Next ==
    \/ \E out \in {NULL, HandleRef} : CreateListStore(out)
    \/ \E type \in ListTypes : SetType(type)
    \/ \E id \in Ids : AddListItem(id, NULL, <<>>)
    \/ \E id \in Ids, s \in Names : AddListItem(id, CallerBuf, s)
    \/ \E in \in {NULL, HandleRef} : FreeListStore(in)
    \/ \E it \in {NULL} \cup ItemAddrs : PrintListItem(it)
    \/ \E st \in {handle} : PrintListStore(st)

Spec == Init /\ [][Next]_vars

(***************************************************************************)
(* Vocabulary of the properties.                                           *)
(***************************************************************************)
RECURSIVE Walk(_, _, _)
Walk(m, cur, fuel) ==
    IF cur = NULL \/ fuel = 0 THEN <<>>
    ELSE <<cur>> \o Walk(m, m.item[cur].next, fuel - 1)

(* The items reached from head by following next (cut after MaxItems + 1). *)
Items(m) == Walk(m, m.store.head, MaxItems + 1)

Range(seq) == {seq[i] : i \in 1..Len(seq)}

HasName(m, a) == m.item[a].name # NULL
NameOf(m, a) == m.buf[m.item[a].name].str

EqIgnoreCase(s, t) ==
    /\ Len(s) = Len(t)
    /\ \A k \in 1..Len(s) : towlower(s[k]) = towlower(t[k])

ValidTypes == {LIST_INCLUDE_DESK, LIST_INCLUDE_HOOK, LIST_INCLUDE_PROG,
               LIST_EXCLUDE_HOOK, LIST_EXCLUDE_PROG}

Added == last.op = "add"
Returned == Added /\ ~exited
(* The last call returned an item that was not in the store before it.     *)
IsNew == Returned /\ last.ret # NULL /\ ~pre.item[last.ret].live
(* The last call returned an item that was already in the store.           *)
IsExisting == Returned /\ last.ret # NULL /\ pre.item[last.ret].live
ArgStr == pre.buf[CallerBuf].str

(* C1: in a store of a valid type no two items are duplicates under the    *)
(* type's matching rule: hook stores hold no id twice; program stores hold *)
(* no two named items with names equal ignoring case and no two nameless   *)
(* items with the same id; desktop stores hold no two names equal ignoring *)
(* case.                                                                   *)
C1_NoDuplicates ==
    (handle # NULL /\ store.type \in ValidTypes) =>
        LET s == Items(Mem)
        IN  \A i, j \in 1..Len(s) : i # j =>
              /\ IsHook(store.type) => item[s[i]].id # item[s[j]].id
              /\ IsProg(store.type) =>
                   /\ (HasName(Mem, s[i]) /\ HasName(Mem, s[j])) =>
                         ~EqIgnoreCase(NameOf(Mem, s[i]), NameOf(Mem, s[j]))
                   /\ (~HasName(Mem, s[i]) /\ ~HasName(Mem, s[j])) =>
                         item[s[i]].id # item[s[j]].id
              /\ store.type = LIST_INCLUDE_DESK =>
                   /\ HasName(Mem, s[i]) /\ HasName(Mem, s[j])
                   /\ ~EqIgnoreCase(NameOf(Mem, s[i]), NameOf(Mem, s[j]))

(* A program store of three items whose last call hit a duplicate by a name *)
(* spelt differently from the stored one.                                  *)
C1_Witness ==
    /\ IsProg(store.type)
    /\ Len(Items(Mem)) = 3
    /\ IsExisting
    /\ last.name # NULL
    /\ NameOf(Mem, last.ret) # ArgStr

(* C2: in a live store head and tail are both null exactly when the store  *)
(* has no items; otherwise the chain from head is finite, holds no item    *)
(* twice, holds exactly the store's items, ends in tail, and tail.next is  *)
(* null.                                                                   *)
C2_HeadTailChain ==
    handle # NULL =>
        LET s == Items(Mem)
            n == Len(s)
        IN  /\ (store.head = NULL) <=> (store.tail = NULL)
            /\ (store.head = NULL) <=> (NumItems = 0)
            /\ n <= MaxItems
            /\ \A i, j \in 1..n : i # j => s[i] # s[j]
            /\ Range(s) = {a \in ItemAddrs : item[a].live}
            /\ n > 0 => /\ s[n] = store.tail
                        /\ item[store.tail].next = NULL

C2_Witness ==
    /\ handle # NULL
    /\ Len(Items(Mem)) = 3
    /\ store.head # store.tail
    /\ IsNew

(* C3: every add_list_item call leaves the item sequence it found as a     *)
(* prefix of the sequence afterwards, each old item keeping its id and     *)
(* name, and a new item is placed only at the end.                         *)
C3_InsertionOrder ==
    Added =>
        LET b == Items(pre)
            a == Items(Mem)
        IN  /\ Len(b) <= Len(a)
            /\ Len(a) <= Len(b) + 1
            /\ SubSeq(a, 1, Len(b)) = b
            /\ \A i \in 1..Len(b) :
                 /\ item[b[i]].id = pre.item[b[i]].id
                 /\ HasName(Mem, b[i]) = HasName(pre, b[i])
                 /\ HasName(pre, b[i]) => NameOf(Mem, b[i]) = NameOf(pre, b[i])
            /\ IsNew <=> (Len(a) = Len(b) + 1)
            /\ IsNew => a[Len(a)] = last.ret

(* Three items were inserted and a duplicate insertion came after them.    *)
C3_Witness ==
    /\ Len(Items(Mem)) = 3
    /\ IsExisting
    /\ last.ret = Items(Mem)[2]
    /\ Items(Mem) = <<1, 2, 3>>

(* C4: in a hook store a second call with the same id and no name returns  *)
(* the item the first call returned, and the store holds exactly one item  *)
(* with that id.                                                           *)
C4_SameHookIdTwice ==
    (Added /\ IsHook(pre.store.type) /\ last.name = NULL) =>
        /\ ~exited
        /\ last.ret # NULL
        /\ item[last.ret].id = last.id
        /\ last.again => last.ret = last.prevret
        /\ Cardinality({i \in 1..Len(Items(Mem)) :
                            item[Items(Mem)[i]].id = last.id}) = 1

C4_Witness ==
    /\ Added /\ IsHook(store.type) /\ last.name = NULL /\ last.again
    /\ last.ret = last.prevret
    /\ last.ret # NULL
    /\ item[last.ret].id = last.id
    /\ Len(Items(Mem)) = 2

(* C5: in a program store a call with an id and no name returns an         *)
(* existing item only if that item is nameless and has the id; it never    *)
(* returns a named item, and when no nameless item has the id it appends a *)
(* new nameless item with the id.                                          *)
C5_ProgIdSkipsNamed ==
    (Added /\ IsProg(pre.store.type) /\ last.name = NULL) =>
        /\ ~exited
        /\ last.ret # NULL
        /\ ~HasName(Mem, last.ret)
        /\ item[last.ret].id = last.id
        /\ IsExisting =>
              ~HasName(pre, last.ret) /\ pre.item[last.ret].id = last.id
        /\ (\A i \in 1..Len(Items(pre)) :
               HasName(pre, Items(pre)[i])
               \/ pre.item[Items(pre)[i]].id # last.id)
           => (IsNew /\ Items(Mem) = Append(Items(pre), last.ret))

(* A name was inserted with id 1 stored beside it, then id 1 without a    *)
(* name: two distinct items in that order.                                 *)
C5_Witness ==
    /\ Added /\ IsProg(store.type) /\ last.name = NULL
    /\ IsNew
    /\ Len(Items(Mem)) = 2
    /\ HasName(Mem, Items(Mem)[1])
    /\ item[Items(Mem)[1]].id = last.id
    /\ last.id # 0
    /\ Items(Mem)[2] = last.ret

(* C6: in a program store and in a desktop store a call with a name equal, *)
(* ignoring case, to the name of an existing item returns that item and    *)
(* creates none (a desktop call meeting the precondition id = 0).          *)
C6_NameIgnoringCase ==
    (/\ Added
     /\ IsProg(pre.store.type)
        \/ (pre.store.type = LIST_INCLUDE_DESK /\ last.id = 0)
     /\ last.name # NULL) =>
        \A i \in 1..Len(Items(pre)) :
            (/\ HasName(pre, Items(pre)[i])
             /\ EqIgnoreCase(NameOf(pre, Items(pre)[i]), ArgStr)) =>
                /\ ~exited
                /\ last.ret = Items(pre)[i]
                /\ Items(Mem) = Items(pre)
                /\ NumItems = Len(Items(pre))
                /\ NameOf(Mem, last.ret) = NameOf(pre, last.ret)

(* "AB" is in a desktop store and "ab" is inserted: one item remains.      *)
C6_Witness ==
    /\ Added /\ store.type = LIST_INCLUDE_DESK
    /\ IsExisting
    /\ ArgStr = <<97, 98>>
    /\ NameOf(Mem, last.ret) = <<65, 66>>
    /\ Len(Items(Mem)) = 1

(* C7: in a hook store a call with a name that does not resolve to an id   *)
(* returns NULL, does not terminate the process and changes nothing in     *)
(* memory; a call that follows such a failure and does not itself fail to  *)
(* resolve returns an item.                                                *)
Unresolved == last.name # NULL /\ ~get_hook_id_from_name(last.id, ArgStr).ok

C7_HookNameUnresolved ==
    (Added /\ IsHook(pre.store.type)) =>
        /\ Unresolved =>
              /\ ~exited
              /\ last.ret = NULL
              /\ Mem = pre
              /\ Items(Mem) = Items(pre)
        /\ (last.afterfail /\ ~Unresolved) =>
              /\ ~exited
              /\ last.ret # NULL
              /\ last.ret \in Range(Items(Mem))

C7_Witness ==
    /\ Added /\ IsHook(store.type)
    /\ Unresolved
    /\ last.ret = NULL
    /\ ~exited
    /\ Len(Items(Mem)) = 2

(* A later insertion on the store after a failed one appends an item.      *)
C7_WitnessLater ==
    /\ Added /\ IsHook(store.type)
    /\ last.afterfail /\ IsNew

(* C8: in a hook store a call with no name and an id that has no name in   *)
(* the directory never returns NULL; when no item has the id, a new item   *)
(* with the id and no name is appended and returned.                       *)
C8_HookIdWithoutName ==
    (Added /\ IsHook(pre.store.type) /\ last.name = NULL
       /\ ~get_hook_name_from_id(pre.buf, last.id).ok) =>
        /\ ~exited
        /\ last.ret # NULL
        /\ item[last.ret].id = last.id
        /\ (\A i \in 1..Len(Items(pre)) : pre.item[Items(pre)[i]].id # last.id)
           => /\ IsNew
              /\ ~HasName(Mem, last.ret)
              /\ Items(Mem) = Append(Items(pre), last.ret)

C8_Witness ==
    /\ Added /\ IsHook(store.type) /\ last.name = NULL
    /\ ~get_hook_name_from_id(pre.buf, last.id).ok
    /\ IsNew
    /\ ~HasName(Mem, last.ret)
    /\ Len(Items(Mem)) = 2

C10_InvalidType ==
    /\ (Added /\ pre.store.type \notin ValidTypes) =>
          /\ exited
          /\ last.ret = NULL
          /\ Mem = pre
    /\ (store.type \notin ValidTypes) =>
          /\ store.head = NULL /\ store.tail = NULL
          /\ NumItems = 0

C10_Witness ==
    /\ Added /\ handle # NULL
    /\ store.type = LIST_INVALID_TYPE
    /\ exited

(* C11: create_list_store terminates the process when out is null or the   *)
(* handle already points to a store, leaving the handle and the memory as  *)
(* they were; otherwise the handle points to a new store with no head, no  *)
(* tail and the type unset.                                                *)
C11_CreateListStore ==
    last.op = "create" =>
        IF last.ptr = NULL \/ last.h # NULL
        THEN /\ exited
             /\ handle = last.h
             /\ Mem = pre
        ELSE /\ ~exited
             /\ handle # NULL
             /\ store.head = NULL
             /\ store.tail = NULL
             /\ store.type = LIST_INVALID_TYPE
             /\ Items(Mem) = <<>>

(* A second create_list_store on the handle of a store of two items.       *)
C11_Witness ==
    /\ last.op = "create"
    /\ last.ptr # NULL /\ last.h # NULL
    /\ exited
    /\ Len(Items(Mem)) = 2

(* The free() calls a forward walk over the items seq of memory m makes:    *)
(* for each item its name, when it has one, and then the item.             *)
RECURSIVE Releases(_, _)
Releases(m, seq) ==
    IF seq = <<>> THEN <<>>
    ELSE (IF HasName(m, Head(seq))
          THEN <<[kind |-> "name", at |-> m.item[Head(seq)].name]>>
          ELSE <<>>)
         \o <<[kind |-> "item", at |-> Head(seq)]>>
         \o Releases(m, Tail(seq))

Freed == last.op = "free" /\ last.ptr # NULL /\ last.h # NULL

(* C12: free_list_store on a live store releases, walking from head, each  *)
(* item's name (when present) and then the item, each exactly once, reads  *)
(* no released cell, leaves nothing allocated, releases the store last and *)
(* sets the handle to null.                                                *)
C12_FreeListStore ==
    Freed =>
        /\ ~last.fault
        /\ last.log = Releases(pre, Items(pre))
                        \o <<[kind |-> "store", at |-> last.h]>>
        /\ \A i, j \in 1..Len(last.log) : i # j => last.log[i] # last.log[j]
        /\ \A a \in ItemAddrs :
             pre.item[a].live => [kind |-> "item", at |-> a] \in Range(last.log)
        /\ \A b \in HeapBufs :
             pre.buf[b].live => [kind |-> "name", at |-> b] \in Range(last.log)
        /\ \A a \in ItemAddrs : ~item[a].live
        /\ \A b \in HeapBufs : ~buf[b].live
        /\ handle = NULL
        /\ ~exited

(* A store of three items, named and nameless, is freed.                   *)
C12_Witness ==
    /\ Freed
    /\ Len(Items(pre)) = 3
    /\ HasName(pre, Items(pre)[1])
    /\ ~HasName(pre, Items(pre)[2])
    /\ HasName(pre, Items(pre)[3])
    /\ Len(last.log) = 6

(* C13: free_list_store with a null in, or with a handle that points to no *)
(* store, releases nothing and changes neither the memory nor the handle;  *)
(* so a call that repeats the call before it changes nothing.              *)
C13_FreeIdempotent ==
    last.op = "free" =>
        /\ (last.ptr = NULL \/ last.h = NULL \/ last.again) =>
              /\ last.log = <<>>
              /\ ~last.fault
              /\ Mem = pre
              /\ handle = last.h
        /\ ~exited

(* free_list_store is called a second time on the handle it has nulled.    *)
C13_Witness ==
    /\ last.op = "free"
    /\ last.again
    /\ last.ptr = HandleRef
    /\ last.prevret # NULL
    /\ last.h = NULL
    /\ handle = NULL

LiveBufs(m) == {b \in HeapBufs : m.buf[b].live}

(* The id of a hook with a name in the directory was inserted with no name *)
(* and created an item; the same call is made again.                       *)
SecondHookInsert ==
    /\ Added /\ last.name = NULL
    /\ last.again /\ last.prevnew
    /\ last.id \in DOMAIN hook_names

(* C14 as stated: in a hook-include store the second insertion returns the *)
(* same item, creates no duplicate, does not call the name resolution      *)
(* again, and the store holds one item for the id, named by the directory. *)
C14_NoSecondResolution ==
    (SecondHookInsert /\ pre.store.type = LIST_INCLUDE_HOOK) =>
        /\ last.ret = last.prevret
        /\ Items(Mem) = Items(pre)
        /\ NameOf(Mem, last.ret) = hook_names[last.id]
        /\ last.lookups = 0

(* C14 amended: in a hook store the second insertion returns the same      *)
(* item and creates no duplicate; the name resolution is called once more  *)
(* and the buffer it yields is released again; the store holds exactly one *)
(* item for the id, named by the directory.                                *)
C14_SecondInsertResolvesAndReleases ==
    (SecondHookInsert /\ IsHook(pre.store.type)) =>
        /\ ~exited
        /\ last.ret # NULL
        /\ last.ret = last.prevret
        /\ Items(Mem) = Items(pre)
        /\ Cardinality({i \in 1..Len(Items(Mem)) :
                            item[Items(Mem)[i]].id = last.id}) = 1
        /\ HasName(Mem, last.ret)
        /\ NameOf(Mem, last.ret) = hook_names[last.id]
        /\ last.lookups = 1
        /\ LiveBufs(Mem) = LiveBufs(pre)

C14_Witness ==
    /\ SecondHookInsert
    /\ store.type = LIST_INCLUDE_HOOK
    /\ Len(Items(Mem)) = 1
    /\ NameOf(Mem, last.ret) = <<65, 66>>
    /\ last.lookups = 1

NamePtrs(m) == {m.item[a].name : a \in {b \in Range(Items(m)) : HasName(m, b)}}

(* The last call passed no name for a hook id that has one in the          *)
(* directory, so the call obtained a name buffer from the resolution.      *)
ResolvedName ==
    /\ Returned /\ IsHook(pre.store.type)
    /\ last.name = NULL
    /\ last.id \in DOMAIN hook_names

(* C15: a name buffer is owned by exactly one item or is released.  Every  *)
(* item's name is a live heap buffer that no other item uses and that is   *)
(* not the caller's buffer, and every live heap buffer is some item's      *)
(* name.  A buffer obtained from the hook resolution becomes the name of   *)
(* the one new item, or no buffer stays allocated when an existing item is *)
(* returned.  A name passed by the caller is stored as a fresh copy.       *)
C15_NameOwnership ==
    LET s == Items(Mem)
    IN  /\ \A i \in 1..Len(s) :
             HasName(Mem, s[i]) =>
                /\ item[s[i]].name \in HeapBufs
                /\ item[s[i]].name # CallerBuf
                /\ buf[item[s[i]].name].live
                /\ \A j \in 1..Len(s) :
                      (j # i /\ HasName(Mem, s[j])) =>
                          item[s[j]].name # item[s[i]].name
        /\ LiveBufs(Mem) = NamePtrs(Mem)
        /\ ResolvedName =>
             IF IsNew
             THEN /\ HasName(Mem, last.ret)
                  /\ ~pre.buf[item[last.ret].name].live
                  /\ NameOf(Mem, last.ret) = hook_names[last.id]
                  /\ LiveBufs(Mem) = LiveBufs(pre) \cup {item[last.ret].name}
             ELSE LiveBufs(Mem) = LiveBufs(pre)
        /\ (IsNew /\ last.name # NULL) =>
             /\ HasName(Mem, last.ret)
             /\ item[last.ret].name # last.name
             /\ ~pre.buf[item[last.ret].name].live
             /\ NameOf(Mem, last.ret) = ArgStr
             /\ LiveBufs(Mem) = LiveBufs(pre) \cup {item[last.ret].name}

(* A resolved name was released: the hook id is already in a store that    *)
(* also holds an item named by a copy of the caller's string.              *)
C15_Witness ==
    /\ ResolvedName
    /\ IsExisting
    /\ Len(Items(Mem)) = 2
    /\ Cardinality(LiveBufs(Mem)) = 1
    /\ NameOf(Mem, last.ret) = <<97, 98>>

Printed == last.op = "print_item" \/ last.op = "print_store"

(* C16: add_list_item, print_list_item and print_list_store leave the type *)
(* of the store as it was when the call was entered; the print calls       *)
(* change nothing at all.                                                  *)
C16_TypeUnchanged ==
    /\ (Added \/ Printed) =>
          /\ store.type = pre.store.type
          /\ handle = last.h
    /\ Printed =>
          /\ Mem = pre
          /\ ~exited

(* A program-exclude store of two items has just been printed.             *)
C16_Witness ==
    /\ last.op = "print_store"
    /\ store.type = LIST_EXCLUDE_PROG
    /\ Len(Items(Mem)) = 2
    /\ last.out[1] = [line |-> "store->type", str |-> "LIST_EXCLUDE_PROG"]
    /\ Len(last.out) = 7

(* C17: when add_list_item returns an existing item, head, tail, the items *)
(* and their order, and the id, name and next link of every item are what  *)
(* they were when the call was entered.                                    *)
C17_DuplicateLeavesStore ==
    IsExisting =>
        /\ store.head = pre.store.head
        /\ store.tail = pre.store.tail
        /\ Items(Mem) = Items(pre)
        /\ NumItems = Len(Items(pre))
        /\ \A i \in 1..Len(Items(pre)) :
             LET a == Items(pre)[i]
             IN  /\ item[a].id = pre.item[a].id
                 /\ item[a].next = pre.item[a].next
                 /\ item[a].name = pre.item[a].name
                 /\ HasName(pre, a) =>
                       /\ buf[item[a].name].live
                       /\ NameOf(Mem, a) = NameOf(pre, a)

(* A hook stored under the name "ab" is inserted again as "AB": the item   *)
(* keeps the name "ab".                                                    *)
C17_Witness ==
    /\ IsExisting
    /\ IsHook(store.type)
    /\ Len(Items(Mem)) = 2
    /\ HasName(Mem, last.ret)
    /\ NameOf(Mem, last.ret) = <<97, 98>>
    /\ last.name # NULL
    /\ ArgStr = <<65, 66>>

(* The hook id the last call is about: the id its name resolves to when a  *)
(* name was passed, the id passed otherwise.                               *)
HookId ==
    IF last.name # NULL THEN get_hook_id_from_name(last.id, ArgStr).id
    ELSE last.id

ItemsWithId(m, id) == {a \in Range(Items(m)) : m.item[a].id = id}

(* C18: in a hook store a call whose name resolves is about the resolved   *)
(* id, whatever id was passed: it returns the item of that id when the     *)
(* store has one, however that item was inserted, and a call by id returns *)
(* the item of that id when the store has one; otherwise a new item with   *)
(* that id is created.  The store never holds two items for one id.        *)
C18_HookIdNameAlias ==
    (Added /\ IsHook(pre.store.type) /\ ~Unresolved) =>
        /\ ~exited
        /\ last.ret # NULL
        /\ item[last.ret].id = HookId
        /\ ItemsWithId(pre, HookId) # {} =>
              /\ IsExisting
              /\ last.ret \in ItemsWithId(pre, HookId)
              /\ Items(Mem) = Items(pre)
        /\ ItemsWithId(pre, HookId) = {} => IsNew
        /\ ItemsWithId(Mem, HookId) = {last.ret}
        /\ \A a \in Range(Items(Mem)) :
              Cardinality(ItemsWithId(Mem, item[a].id)) = 1

(* The name "ab" is passed with id 0 to a store that holds the items of    *)
(* id 0 and of id 1: the item of id 1, the id of the name, is returned.    *)
C18_Witness ==
    /\ Added /\ IsHook(store.type)
    /\ last.name # NULL /\ ~Unresolved
    /\ last.id # HookId
    /\ ItemsWithId(pre, last.id) # {}
    /\ IsExisting
    /\ item[last.ret].id = HookId
    /\ item[last.ret].id # last.id

NewProgItem == IsNew /\ IsProg(pre.store.type)

(* C19 as stated: in a program store a new item has exactly one of name    *)
(* and id: created from a name it has a copy of the name and no id (the    *)
(* id field is zero); created from an id it has the id and no name.        *)
C19_ExactlyOneOfNameAndId ==
    NewProgItem =>
        IF last.name # NULL
        THEN /\ HasName(Mem, last.ret)
             /\ NameOf(Mem, last.ret) = ArgStr
             /\ item[last.ret].id = 0
        ELSE /\ ~HasName(Mem, last.ret)
             /\ item[last.ret].id = last.id

(* C19 amended: in a program store a new item has a name exactly when a    *)
(* name was passed.  Created from a name it has its own copy of the name   *)
(* and, in its id field, the id argument as it was passed; created from an *)
(* id it has the id and no name.                                           *)
C19_NewProgItemFields ==
    NewProgItem =>
        /\ item[last.ret].id = last.id
        /\ IF last.name # NULL
           THEN /\ HasName(Mem, last.ret)
                /\ item[last.ret].name # last.name
                /\ NameOf(Mem, last.ret) = ArgStr
           ELSE ~HasName(Mem, last.ret)

(* A program item is created from the name "A" passed with id 1.           *)
C19_Witness ==
    /\ NewProgItem
    /\ last.name # NULL
    /\ ArgStr = <<65>>
    /\ last.id = 1
    /\ HasName(Mem, last.ret)
    /\ item[last.ret].id = 1

(* Item a of memory m matches the last add request under the rule of the   *)
(* store's type.                                                           *)
MatchesRequest(m, a) ==
    IF IsHook(pre.store.type) THEN m.item[a].id = HookId
    ELSE IF IsProg(pre.store.type) THEN
        IF last.name # NULL
        THEN HasName(m, a) /\ EqIgnoreCase(NameOf(m, a), ArgStr)
        ELSE ~HasName(m, a) /\ m.item[a].id = last.id
    ELSE IF pre.store.type = LIST_INCLUDE_DESK THEN
        /\ last.name # NULL
        /\ HasName(m, a)
        /\ EqIgnoreCase(NameOf(m, a), ArgStr)
    ELSE FALSE

(* The last add_list_item call failed: it ended the program or returned    *)
(* no item.                                                                *)
AddFailed == exited \/ last.ret = NULL

MatchedBefore == \E a \in Range(Items(pre)) : MatchesRequest(pre, a)

(* C20: an item returned by add_list_item is reachable from the head of    *)
(* the store and matches the request under the rule of the store's type;   *)
(* the call adds exactly one item when no item matched before and the call *)
(* did not fail, and none otherwise; no operation but free_list_store ever *)
(* removes an item.                                                        *)
C20_ReturnedMemberAndGrowth ==
    /\ (Returned /\ last.ret # NULL) =>
          /\ item[last.ret].live
          /\ last.ret \in Range(Items(Mem))
          /\ MatchesRequest(Mem, last.ret)
    /\ Added =>
          Len(Items(Mem)) =
              Len(Items(pre)) + (IF ~AddFailed /\ ~MatchedBefore THEN 1 ELSE 0)
    /\ last.op # "free" =>
          /\ Range(Items(pre)) \subseteq Range(Items(Mem))
          /\ Len(Items(pre)) <= Len(Items(Mem))

(* A program store with two items receives a request that matches the      *)
(* second; the call returns it and the store still has two items.          *)
C20_Witness ==
    /\ Returned /\ IsProg(pre.store.type)
    /\ last.ret # NULL
    /\ MatchedBefore
    /\ Len(Items(pre)) = 2
    /\ last.ret = Items(pre)[2]
    /\ Len(Items(Mem)) = 2

====
